---- MODULE Spec2Model ----
(***************************************************************************)
(* A model of limlam_mocker's halo catalogue (load_halos.py) and of its    *)
(* halo-to-luminosity pipeline (halos_to_luminosity.py).                   *)
(*                                                                         *)
(* Python objects with dynamically added attributes (HaloCatalog,          *)
(* SimParameters) are functions from attribute names to values; hasattr is *)
(* membership in DOMAIN.  A catalogue attribute is a tagged value          *)
(* [t |-> its Python type, v |-> its value]; a numpy array also carries    *)
(* o, the provenance of each element (the row of the loaded catalogue file *)
(* the element was computed from), which is history, not program state.    *)
(* Real numbers are scaled integers (dex in tenths, coefficients in        *)
(* tenths or hundredths); the closed-form luminosity relations are integer *)
(* stand-ins that keep the sign and the zeros of the result and the inputs *)
(* it is computed from.                                                    *)
(***************************************************************************)
EXTENDS Integers, Sequences, FiniteSets, TLC

VARIABLES
    halos,      \* the HaloCatalog object: attribute name -> tagged value
    params,     \* the SimParameters object: attribute name -> value
    ret,        \* what the last call returned
    last,       \* the last call: operation, mode, exception raised, the
                \* number of halos it started from, arguments
    sfr_interp_tab, \* the module global of halos_to_luminosity.py
    np_random,  \* the state of numpy's global generator (np.random.*)
    table_loads,    \* history: how many times get_sfr_table has run
    earlier     \* history: one earlier add_log_normal_scatter call

vars == <<halos, params, ret, last, sfr_interp_tab, np_random, table_loads,
          earlier>>

lumvars == <<sfr_interp_tab, np_random, table_loads, earlier>>

(***************************************************************************)
(* Bounds of the model.                                                    *)
(***************************************************************************)
MaxHalo == 2            \* halos in the loaded catalogue file

(***************************************************************************)
(* Python values.                                                          *)
(***************************************************************************)
None == [t |-> "None"]

ndarray(v, o) == [t |-> "ndarray", v |-> v, o |-> o]

scalar(x) == [t |-> "scalar", v |-> x]

pyobject(x) == [t |-> "object", v |-> x]

pytuple(x) == [t |-> "tuple", v |-> x]

pylist(x) == [t |-> "list", v |-> x]

hasattr(obj, name) == name \in DOMAIN obj

setattr(obj, name, val) ==
    [a \in (DOMAIN obj) \cup {name} |-> IF a = name THEN val ELSE obj[a]]

Range(s) == {s[i] : i \in DOMAIN s}

\* s[idx] for a sequence s and a 0-based index array idx
Take(s, idx) ==
    IF Len(idx) = 0 THEN << >> ELSE [i \in 1..Len(idx) |-> s[idx[i] + 1]]

\* x[idx] raises TypeError unless x is a numpy array: a Python int, float,
\* tuple, list (a list cannot be indexed by an index array) or plain object
subscriptable(x) == x.t = "ndarray"

getitem(x, idx) == ndarray(Take(x.v, idx), Take(x.o, idx))

\* np.where(mask)[0]: the 0-based positions where mask holds, ascending
where(mask) ==
    LET F[i \in 0..Len(mask)] ==
            IF i = 0 THEN << >>
            ELSE IF mask[i] THEN Append(F[i - 1], i - 1) ELSE F[i - 1]
    IN F[Len(mask)]

Abs(x) == IF x < 0 THEN -x ELSE x

RECURSIVE SumSeq(_)
SumSeq(s) == IF Len(s) = 0 THEN 0 ELSE s[1] + SumSeq(Tail(s))

MaxSeq(s) == CHOOSE m \in Range(s) : \A x \in Range(s) : x <= m

(***************************************************************************)
(* The catalogue file and HaloCatalog.load / load_luminosities.            *)
(***************************************************************************)
\* the halos a catalogue file may hold: mass, observed redshift, angular
\* position, and the luminosities a luminosity file holds for them
HaloPool ==
    { [M |-> 3, redshift |-> 2, ra |->  0, dec |->  0, Lco |-> 30, Lcat |-> 100],
      [M |-> 2, redshift |-> 1, ra |-> -1, dec |->  1, Lco |-> 20, Lcat |-> 10],
      [M |-> 2, redshift |-> 3, ra |->  2, dec |->  0, Lco |-> 20, Lcat |-> 1],
      [M |-> 1, redshift |-> 2, ra |->  0, dec |-> -2, Lco |-> 10, Lcat |-> 10] }

\* a file holds each halo once
CatalogFiles ==
    {f \in UNION {[1..n -> HaloPool] : n \in 1..MaxHalo} :
        \A i, j \in DOMAIN f : i # j => f[i] # f[j]}

column(file, f) == [i \in 1..Len(file) |-> file[i][f]]

rows(file) == [i \in 1..Len(file) |-> i]

\* the attributes load() sets (one stand-in for the three cosmology scalars)
load(file) ==
    [a \in {"M", "redshift", "ra", "dec", "nhalo", "cosmo", "Omega_L"} |->
        CASE a = "nhalo" -> scalar(Len(file))
          [] a = "cosmo" -> pyobject("FlatLambdaCDM")
          [] a = "Omega_L" -> scalar(7)
          [] OTHER -> ndarray(column(file, a), rows(file))]

\* the luminosities of a previous run, read back from its file
load_luminosities(self, file) ==
    [a \in (DOMAIN self) \cup {"Lco", "Lcat"} |->
        IF a \in {"Lco", "Lcat"} THEN ndarray(column(file, a), rows(file))
        ELSE self[a]]

\* the records a luminosity run leaves on the catalogue: the coefficient
\* tuple of the catalogue model (halos.catalog_coeffs = coeffs) and the
\* covariance of the joint scatter (halos.cov = cov, a list of two lists)
luminosity_records(self) ==
    [a \in (DOMAIN self) \cup {"cov", "catalog_coeffs"} |->
        CASE a = "cov" -> pylist(<<<<4, 2>>, <<2, 4>>>>)
          [] a = "catalog_coeffs" -> pytuple(<<-20, -5, 11, 13, 5>>)
          [] OTHER -> self[a]]

(***************************************************************************)
(* HaloCatalog.indexcut and HaloCatalog.attrcut_subset.                    *)
(***************************************************************************)
\* (variant) the loop over a fixed list of the arrays load() sets
index_attributes_fixed_fields(self, idx) ==
    [i \in DOMAIN self |->
        IF i \in {"M", "redshift", "ra", "dec"} THEN getitem(self[i], idx)
        ELSE self[i]]

\* for i in dir(self): try: setattr(target, i, getattr(self, i)[idx])
\*                     except TypeError: pass
\* (methods and dunder names are not subscriptable and are left out)
index_attributes(self, idx) ==
    [i \in DOMAIN self |->
        IF subscriptable(self[i]) THEN getitem(self[i], idx) ELSE self[i]]

\* (variant) copy() handing back the catalogue itself, not a copy
after_copy_aliased(self, subset) == subset

\* subset = self.copy(): the catalogue after the attributes of the copy
\* were assigned.  copy.deepcopy gives a separate object with arrays of its
\* own, so the catalogue is as it was.
after_copy(self, subset) == self

\* (variant) nhalo left as it was
set_nhalo_stale(obj) == obj

set_nhalo(obj) == setattr(obj, "nhalo", scalar(Len(obj["M"].v)))

\* indexcut, in_place=False: the loop over a deep copy, then subset.nhalo
indexcut_copy(self, idx) == set_nhalo(index_attributes(self, idx))

\* indexcut, in_place=True: the loop over self, self.nhalo set in the loop
indexcut_in_place(self, idx) == set_nhalo(index_attributes(self, idx))

\* (variant) the lower bound taken inclusive
attrcut_keepidx_closed(self, attr, minval, maxval) ==
    where([i \in 1..Len(self[attr].v) |->
              self[attr].v[i] >= minval /\ self[attr].v[i] <= maxval])

\* keepidx of attrcut_subset: minval < attr <= maxval
attrcut_keepidx(self, attr, minval, maxval) ==
    where([i \in 1..Len(self[attr].v) |->
              self[attr].v[i] > minval /\ self[attr].v[i] <= maxval])

attrcut_copy(self, attr, minval, maxval) ==
    set_nhalo(index_attributes(self, attrcut_keepidx(self, attr, minval, maxval)))

attrcut_in_place(self, attr, minval, maxval) ==
    set_nhalo(index_attributes(self, attrcut_keepidx(self, attr, minval, maxval)))

nhalo_of(self) == self["nhalo"].v

\* the index arrays an indexcut of n halos is called with: the arrays of
\* valid indices that name no halo twice (the empty array and every
\* permutation of all indices among them)
IndexArrays(n) ==
    {idx \in UNION {[1..k -> 0..(n - 1)] : k \in 0..n} :
        \A i, j \in DOMAIN idx : i # j => idx[i] # idx[j]}

indexcut(idx, in_place) ==
    /\ last' = [op |-> "indexcut", in_place |-> in_place, err |-> "",
                n0 |-> nhalo_of(halos), args |-> << >>]
    /\ IF in_place
       THEN /\ halos' = indexcut_in_place(halos, idx)
            /\ ret' = None
       ELSE /\ ret' = [t |-> "HaloCatalog", a |-> indexcut_copy(halos, idx)]
            /\ halos' = after_copy(halos, indexcut_copy(halos, idx))
    /\ UNCHANGED <<params, lumvars>>

attrcut_subset(attr, minval, maxval, in_place) ==
    /\ hasattr(halos, attr)
    /\ subscriptable(halos[attr])
    /\ last' = [op |-> "attrcut_subset", in_place |-> in_place, err |-> "",
                n0 |-> nhalo_of(halos),
                args |-> [attr |-> attr, minval |-> minval, maxval |-> maxval]]
    /\ IF in_place
       THEN /\ halos' = attrcut_in_place(halos, attr, minval, maxval)
            /\ ret' = None
       ELSE /\ ret' = [t |-> "HaloCatalog",
                       a |-> attrcut_copy(halos, attr, minval, maxval)]
            /\ halos' = after_copy(halos,
                                   attrcut_copy(halos, attr, minval, maxval))
    /\ UNCHANGED <<params, lumvars>>

\* def attrcut_subset(self, attr, minval, maxval, params, in_place=False):
\* the parameters after self, and those with a default value
attrcut_subset_parameters ==
    <<"attr", "minval", "maxval", "params", "in_place">>

attrcut_subset_defaults == {"in_place"}

\* the parameters a call with npositional positional arguments and the
\* given keyword arguments leaves without a value; when there is one,
\* Python raises TypeError before the body of attrcut_subset runs
missing_arguments(npositional, keywords) ==
    {attrcut_subset_parameters[i] :
        i \in (npositional + 1)..Len(attrcut_subset_parameters)}
        \ (keywords \cup attrcut_subset_defaults)

\* the body masscut_subset and vmaxcut_subset share:
\*     if in_place: self.attrcut_subset(attr, lo, hi, in_place=True)
\*     else: return self.attrcut_subset(attr, lo, hi)
convenience_cut(op, attr, minval, maxval, in_place) ==
    LET missing == missing_arguments(3, IF in_place THEN {"in_place"} ELSE {})
    IN /\ last' = [op |-> op, in_place |-> in_place,
                   err |-> IF missing = {} THEN "" ELSE "TypeError",
                   n0 |-> nhalo_of(halos),
                   args |-> [attr |-> attr, minval |-> minval,
                             maxval |-> maxval]]
       /\ IF missing # {}
          THEN /\ halos' = halos
               /\ ret' = None
          ELSE /\ hasattr(halos, attr)
               /\ subscriptable(halos[attr])
               /\ IF in_place
                  THEN /\ halos' = attrcut_in_place(halos, attr, minval, maxval)
                       /\ ret' = None
                  ELSE /\ ret' = [t |-> "HaloCatalog",
                                  a |-> attrcut_copy(halos, attr, minval, maxval)]
                       /\ halos' = after_copy(halos,
                                       attrcut_copy(halos, attr, minval, maxval))
       /\ UNCHANGED <<params, lumvars>>

masscut_subset(min_mass, max_mass, in_place) ==
    convenience_cut("masscut_subset", "M", min_mass, max_mass, in_place)

vmaxcut_subset(min_vmax, max_vmax, in_place) ==
    convenience_cut("vmaxcut_subset", "vmax", min_vmax, max_vmax, in_place)

(***************************************************************************)
(* HaloCatalog.cull.                                                       *)
(***************************************************************************)
\* np.argsort(m): an index array that sorts m ascending.  The default sort
\* kind is not stable, so equal masses may come out in either order.
argsort(m) ==
    {s \in [1..Len(m) -> 0..(Len(m) - 1)] :
        /\ \A i, j \in 1..Len(m) : i # j => s[i] # s[j]
        /\ \A i \in 1..(Len(m) - 1) : m[s[i] + 1] <= m[s[i + 1] + 1]}

\* (variant) the index array not reversed
not_reversed(a) == a

\* a[::-1]
reversed(a) == [i \in 1..Len(a) |-> a[Len(a) + 1 - i]]

\* (variant) the minimum mass taken inclusive
cull_mask_closed_mass(self, p, z_i, z_f) ==
    [i \in 1..Len(self["M"].v) |->
        /\ self["M"].v[i] >= p.min_mass
        /\ self["M"].v[i] < p.mass_cutoff
        /\ self["redshift"].v[i] >= z_i
        /\ self["redshift"].v[i] <= z_f
        /\ 2 * Abs(self["ra"].v[i]) <= p.fov_x
        /\ 2 * Abs(self["dec"].v[i]) <= p.fov_y]

\* the boolean mask of cull (the product of the six comparisons)
cull_mask(self, p, z_i, z_f) ==
    [i \in 1..Len(self["M"].v) |->
        /\ self["M"].v[i] > p.min_mass
        /\ self["M"].v[i] < p.mass_cutoff
        /\ self["redshift"].v[i] >= z_i
        /\ self["redshift"].v[i] <= z_f
        /\ 2 * Abs(self["ra"].v[i]) <= p.fov_x
        /\ 2 * Abs(self["dec"].v[i]) <= p.fov_y]

\* the configurations cull is called with; za and zb are what freq_to_z
\* returns for nu_i and nu_f
CullParams ==
    {p \in [min_mass : {0, 1}, mass_cutoff : {3, 4}, za : {1, 3}, zb : {2},
            fov_x : {2, 4}, fov_y : {2, 4}] : p.fov_x = p.fov_y}

\* the catalogue as cull leaves it before the sort: the redshift limits
\* swapped when inverted, the mask, self.indexcut(goodidx, in_place=True)
cull_cut(self, p) ==
    LET z_i == IF p.za > p.zb THEN p.zb ELSE p.za
        z_f == IF p.za > p.zb THEN p.za ELSE p.zb
    IN indexcut_in_place(self, where(cull_mask(self, p, z_i, z_f)))

cull(p) ==
    LET z_i == IF p.za > p.zb THEN p.zb ELSE p.za
        z_f == IF p.za > p.zb THEN p.za ELSE p.zb
        cut == cull_cut(halos, p)
    IN /\ params' = setattr(setattr(params, "z_i", z_i), "z_f", z_f)
       /\ \E sortidx \in argsort(cut["M"].v) :
              halos' = indexcut_in_place(cut, reversed(sortidx))
       /\ ret' = None
       /\ last' = [op |-> "cull", in_place |-> TRUE, err |-> "",
                   n0 |-> nhalo_of(halos), args |-> p]
       /\ UNCHANGED lumvars

(***************************************************************************)
(* The constructor, HaloCatalog(params, inputfile): load, then cull.  Two  *)
(* runs of the program on one catalogue file are two constructions; the    *)
(* model remembers one earlier construction to compare a later one with.   *)
(* np.argsort is a function of the array it sorts: a construction that     *)
(* sorts the mass array the remembered one sorted gets the same order.     *)
(***************************************************************************)
MaxFileHalo == 3        \* halos in a file given to the constructor

ConstructorFiles ==
    {f \in [1..MaxFileHalo -> HaloPool] :
        \A i, j \in DOMAIN f : i # j => f[i] # f[j]}

\* parameter files that differ in min_mass only; the other limits keep
\* every halo of the pool
ConstructorParams ==
    [min_mass : {0, 1}, mass_cutoff : {4}, za : {1}, zb : {3},
     fov_x : {4}, fov_y : {4}]

HaloCatalog(p, inputfile) ==
    \E cut \in {cull_cut(load(inputfile), p)} :
    \E sortidx \in argsort(cut["M"].v) :
    \E sorted \in {indexcut_in_place(cut, reversed(sortidx))} :
          /\ (~(earlier.t = "None") /\ earlier.sorted = cut["M"].v) =>
                 sortidx = earlier.sortidx
          /\ halos' = sorted
          /\ params' = setattr(setattr(params, "z_i", p.za), "z_f", p.zb)
          /\ ret' = None
          /\ last' = [op |-> "HaloCatalog", in_place |-> TRUE, err |-> "",
                      n0 |-> Len(inputfile),
                      args |-> [params |-> p, inputfile |-> inputfile]]
          /\ \/ earlier' = earlier
             \/ earlier' = [t |-> "construction", params |-> p,
                            inputfile |-> inputfile,
                            sorted |-> cut["M"].v, sortidx |-> sortidx,
                            out |-> sorted]
          /\ UNCHANGED <<sfr_interp_tab, np_random, table_loads>>

(***************************************************************************)
(* HaloCatalog.observation_cull.                                           *)
(***************************************************************************)
\* A numpy generator: its state, seeding, stepping, and a uniform draw in
\* [0, 1) scaled to 0..W-1.
RngStates == 0..15

default_rng(seed) == (5 * seed + 1) % 16

rng_next(st) == (5 * st + 3) % 16

rng_uniform(st, W) == (st * W) \div 16

\* np.log10 on the luminosities of the pool (whole decades)
RECURSIVE log10(_)
log10(x) == IF x < 10 THEN 0 ELSE 1 + log10(x \div 10)

\* the numerators of the selection weights; rng.choice gets them divided by
\* their sum
obs_weights(Lcat, obs_weight) ==
    IF obs_weight = "linear" THEN Lcat
    ELSE [i \in 1..Len(Lcat) |-> log10(Lcat[i])]

\* rng.choice(n, size, replace=False, p=w/sum(w)) raises ValueError: p holds
\* NaN (0/0), p holds a negative entry, size exceeds the population, or
\* fewer entries of p are non-zero than size
choice_raises(w, size) ==
    \/ SumSeq(w) = 0
    \/ \E i \in 1..Len(w) : w[i] * SumSeq(w) < 0
    \/ size > Len(w)
    \/ Cardinality({i \in 1..Len(w) : w[i] > 0}) < size

\* the indices rng.choice draws: one at a time by inverting the cumulative
\* weights at a uniform draw, the weight of a drawn index set to zero
RECURSIVE choice(_, _, _)
choice(st, w, size) ==
    IF size = 0 THEN << >>
    ELSE LET u == rng_uniform(st, SumSeq(w))
             cdf[i \in 0..Len(w)] == IF i = 0 THEN 0 ELSE cdf[i - 1] + w[i]
             j == CHOOSE i \in 1..Len(w) :
                      cdf[i] > u /\ \A k \in 1..(i - 1) : cdf[k] <= u
         IN <<j - 1>> \o choice(rng_next(st), [w EXCEPT ![j] = 0], size - 1)

\* the body of observation_cull on the catalogue it cuts (self, or the copy):
\* the exception it raises, if any, and the catalogue as it leaves it
observation_cull_body(self, p) ==
    IF Len(self["Lcat"].v) = 0
    THEN [err |-> "ValueError", cat |-> self]      \* np.nanmax of no element
    ELSE LET cut == attrcut_in_place(self, "Lcat", p.lcat_cutoff,
                                     MaxSeq(self["Lcat"].v) + 10)
             w == obs_weights(cut["Lcat"].v, p.obs_weight)
         IN IF p.goal_nobj > 0
            THEN IF choice_raises(w, p.goal_nobj)
                 THEN [err |-> "ValueError", cat |-> cut]
                 ELSE [err |-> "",
                       cat |-> indexcut_in_place(cut,
                                  choice(default_rng(p.vcat_seed), w, p.goal_nobj))]
            ELSE [err |-> "", cat |-> cut]

ObsParams ==
    [lcat_cutoff : {0, 1}, goal_nobj : 0..MaxHalo, vcat_seed : {1},
     obs_weight : {"linear", "log"}]

observation_cull(p, in_place) ==
    /\ hasattr(halos, "Lcat")
    /\ LET r == observation_cull_body(halos, p)
       IN /\ last' = [op |-> "observation_cull", in_place |-> in_place,
                      err |-> r.err, n0 |-> nhalo_of(halos),
                      args |-> << >>]
          /\ IF in_place
             THEN /\ halos' = r.cat
                  /\ ret' = None
             ELSE /\ halos' = after_copy(halos, r.cat)
                  /\ ret' = IF r.err = "" THEN [t |-> "HaloCatalog", a |-> r.cat]
                            ELSE None
    /\ UNCHANGED <<params, lumvars>>

(***************************************************************************)
(* Specification of the catalogue operations.                              *)
(***************************************************************************)
CutAttrs == {"M", "Lcat"}

CutLower == {1, 2}

CutUpper == {2, 10}

InitCat ==
    /\ \E file \in CatalogFiles :
          halos = luminosity_records(load_luminosities(load(file), file))
    /\ params = << >>
    /\ ret = None
    /\ last = [op |-> "load", in_place |-> TRUE, err |-> "", n0 |-> 0,
               args |-> << >>]
    /\ sfr_interp_tab = None
    /\ np_random = 0
    /\ table_loads = 0
    /\ earlier = None

NextCat ==
    \/ \E p \in CullParams : cull(p)
    \/ \E in_place \in BOOLEAN :
          \E idx \in IndexArrays(nhalo_of(halos)) : indexcut(idx, in_place)
    \/ \E attr \in CutAttrs, minval \in CutLower, maxval \in CutUpper,
          in_place \in BOOLEAN : attrcut_subset(attr, minval, maxval, in_place)
    \/ \E p \in ObsParams, in_place \in BOOLEAN : observation_cull(p, in_place)
    \/ \E min_mass \in CutLower, max_mass \in CutUpper, in_place \in BOOLEAN :
          masscut_subset(min_mass, max_mass, in_place)
    \/ \E min_vmax \in CutLower, max_vmax \in CutUpper, in_place \in BOOLEAN :
          vmaxcut_subset(min_vmax, max_vmax, in_place)

SpecCat == InitCat /\ [][NextCat]_vars

(***************************************************************************)
(* Specification of runs of the constructor on catalogue files.            *)
(***************************************************************************)
InitConstructor ==
    /\ \E file \in CatalogFiles : halos = load(file)
    /\ params = << >>
    /\ ret = None
    /\ last = [op |-> "load", in_place |-> TRUE, err |-> "", n0 |-> 0,
               args |-> << >>]
    /\ sfr_interp_tab = None
    /\ np_random = 0
    /\ table_loads = 0
    /\ earlier = None

NextConstructor ==
    \E p \in ConstructorParams, inputfile \in ConstructorFiles :
        HaloCatalog(p, inputfile)

SpecConstructor == InitConstructor /\ [][NextConstructor]_vars

(***************************************************************************)
(* Properties of the catalogue operations.                                 *)
(***************************************************************************)
arrays(self) == {a \in DOMAIN self : self[a].t = "ndarray"}

\* the rows of the catalogue file a catalogue holds, in order
rows_of(self) == self["M"].o

\* the catalogue a call worked on: the object itself, or the copy returned
IsCatalog(r) == r.t = "HaloCatalog"

\* every per-halo array has nhalo elements and position i of each comes
\* from the same row of the file
consistent(self) ==
    \A a \in arrays(self) :
        /\ Len(self[a].v) = nhalo_of(self)
        /\ Len(self[a].o) = nhalo_of(self)
        /\ self[a].o = rows_of(self)

\* the scalar and metadata attributes are as load and the luminosity run
\* left them
metadata_kept(self) ==
    /\ self["nhalo"].t = "scalar"
    /\ self["cosmo"] = pyobject("FlatLambdaCDM")
    /\ self["Omega_L"] = scalar(7)
    /\ self["cov"] = pylist(<<<<4, 2>>, <<2, 4>>>>)
    /\ self["catalog_coeffs"] = pytuple(<<-20, -5, 11, 13, 5>>)

\* C1: after any sequence of cull, indexcut, attrcut_subset and
\* observation_cull calls, in place or returning a copy, every per-halo
\* array of the catalogue (and of the returned copy) has the same length,
\* nhalo is that length, position i of every array is the same original
\* halo, and the scalar and metadata attributes are not index-transformed.
C1_CatalogConsistent ==
    /\ consistent(halos)
    /\ metadata_kept(halos)
    /\ IsCatalog(ret) => consistent(ret.a) /\ metadata_kept(ret.a)

\* a copy-returning observation_cull that kept one of two halos of a
\* catalogue an earlier call had reordered
C1_Witness ==
    /\ last.op = "observation_cull"
    /\ IsCatalog(ret)
    /\ rows_of(halos) = <<2, 1>>
    /\ nhalo_of(ret.a) = 1
    /\ Len(ret.a["Lcat"].v) = 1

\* the rows of self at the positions where test holds
rows_where(self, test(_)) ==
    {rows_of(self)[i] : i \in {k \in 1..nhalo_of(self) : test(k)}}

no_row_twice(self) ==
    \A i, j \in 1..Len(rows_of(self)) : i # j => rows_of(self)[i] # rows_of(self)[j]

\* C2: cull retains a halo if and only if min_mass < M < mass_cutoff,
\* z_i <= redshift <= z_f (the bounds swapped when inverted),
\* |ra| <= fov_x/2 and |dec| <= fov_y/2.
C2_CullKeepsExactly ==
    [][last'.op = "cull" =>
            LET p == last'.args
                lo == IF p.za <= p.zb THEN p.za ELSE p.zb
                hi == IF p.za <= p.zb THEN p.zb ELSE p.za
                passes(i) ==
                    /\ p.min_mass < halos["M"].v[i]
                    /\ halos["M"].v[i] < p.mass_cutoff
                    /\ lo <= halos["redshift"].v[i]
                    /\ halos["redshift"].v[i] <= hi
                    /\ 2 * Abs(halos["ra"].v[i]) <= p.fov_x
                    /\ 2 * Abs(halos["dec"].v[i]) <= p.fov_y
            IN /\ Range(rows_of(halos')) = rows_where(halos, passes)
               /\ no_row_twice(halos) => no_row_twice(halos')
               /\ params'["z_i"] = lo /\ params'["z_f"] = hi]_vars

\* a cull with inverted redshift bounds (z_i = 2, z_f = 3 come from za = 3,
\* zb = 2) that kept one halo and removed another
C2_Witness ==
    /\ last.op = "cull"
    /\ params["z_i"] = 2
    /\ params["z_f"] = 3
    /\ nhalo_of(halos) = 1
    /\ last.n0 = 2

\* C3: after every cull the mass array is in non-increasing order and every
\* other per-halo array has been reordered by the same permutation.
C3_CullSortsByMass ==
    last.op = "cull" =>
        /\ \A i, j \in 1..Len(halos["M"].v) :
              i < j => halos["M"].v[i] >= halos["M"].v[j]
        /\ \A a \in arrays(halos) : halos[a].o = rows_of(halos)

\* a cull that moved the second row of the file in front of the first
C3_Witness ==
    /\ last.op = "cull"
    /\ rows_of(halos) = <<2, 1>>
    /\ halos["M"].v = <<3, 2>>
    /\ halos["Lcat"].o = <<2, 1>>

\* the catalogue the last call cut, in the state after the call
cut_catalogue(self, r, in_place) == IF in_place THEN self ELSE r.a

\* C4: attrcut_subset(attr, a, b) keeps exactly the halos with
\* a < attr <= b, in their order, in place and in copy mode.
C4_AttrcutHalfOpen ==
    [][last'.op = "attrcut_subset" =>
          LET a == last'.args
              out == cut_catalogue(halos', ret', last'.in_place)
              inside(i) == /\  a.minval < halos[a.attr].v[i]
                           /\ halos[a.attr].v[i] <= a.maxval
          IN /\ Range(rows_of(out)) = rows_where(halos, inside)
             /\ Len(rows_of(out)) = Cardinality({i \in 1..nhalo_of(halos) : inside(i)})
             /\ \A i \in 1..nhalo_of(out) :
                   a.minval < out[a.attr].v[i] /\ out[a.attr].v[i] <= a.maxval]_vars

\* a copy-mode mass cut (1, 2] of a catalogue holding a halo of mass 1 and a
\* halo of mass 2: the first is dropped and the second kept
C4_Witness ==
    /\ last.op = "attrcut_subset"
    /\ ~last.in_place
    /\ last.args = [attr |-> "M", minval |-> 1, maxval |-> 2]
    /\ halos["M"].v = <<1, 2>>
    /\ IsCatalog(ret)
    /\ ret.a["M"].v = <<2>>

IsPermutation(idx, n) ==
    /\ Len(idx) = n
    /\ \A k \in 0..(n - 1) : \E i \in 1..n : idx[i] = k

count(seq, x) == Cardinality({i \in 1..Len(seq) : seq[i] = x})

\* C5: indexcut with a permutation of all indices keeps nhalo and the
\* multiset of halos, every field permuted alike; indexcut with an empty
\* index array leaves nhalo = 0 and every per-halo array empty.
C5_IndexcutPermutationAndEmpty ==
    [][\A in_place \in BOOLEAN :
          \A idx \in IndexArrays(nhalo_of(halos)) :
             last'.op = "indexcut" /\ indexcut(idx, in_place) =>
               LET out == cut_catalogue(halos', ret', in_place)
               IN /\ IsPermutation(idx, nhalo_of(halos)) =>
                        /\ nhalo_of(out) = nhalo_of(halos)
                        /\ \A r \in Range(rows_of(halos)) \cup Range(rows_of(out)) :
                              count(rows_of(out), r) = count(rows_of(halos), r)
                        /\ \A f \in arrays(out) :
                              /\ out[f].o = rows_of(out)
                              /\ \A i \in 1..Len(idx) :
                                    out[f].v[i] = halos[f].v[idx[i] + 1]
                  /\ idx = << >> =>
                        /\ nhalo_of(out) = 0
                        /\ \A f \in arrays(halos) : Len(out[f].v) = 0]_vars

\* a copy-mode indexcut that swapped the two halos of a catalogue
C5_Witness ==
    /\ last.op = "indexcut"
    /\ ~last.in_place
    /\ IsCatalog(ret)
    /\ rows_of(halos) = <<1, 2>>
    /\ rows_of(ret.a) = <<2, 1>>
    /\ nhalo_of(ret.a) = 2

\* the halos of self that pass the luminosity cut
passing(self, lcat_cutoff) ==
    {i \in 1..nhalo_of(self) : self["Lcat"].v[i] > lcat_cutoff}

\* C6: observation_cull with goal_nobj = k > 0 ends with exactly k distinct
\* halos, all with Lcat > lcat_cutoff, whenever k is at most the number of
\* halos that pass the luminosity cut, for linear and for log weights.
C6_ObservationCullReturnsK ==
    [][\A p \in ObsParams, in_place \in BOOLEAN :
          /\ last'.op = "observation_cull"
          /\ observation_cull(p, in_place)
          /\ p.goal_nobj > 0
          /\ p.goal_nobj <= Cardinality(passing(halos, p.lcat_cutoff))
          => /\ last'.err = ""
             /\ LET out == cut_catalogue(halos', ret', in_place)
                IN /\ nhalo_of(out) = p.goal_nobj
                   /\ Cardinality(Range(rows_of(out))) = p.goal_nobj
                   /\ \A i \in 1..nhalo_of(out) :
                         out["Lcat"].v[i] > p.lcat_cutoff]_vars

(***************************************************************************)
(* Random scatter: add_log_normal_scatter, add_co_tracer_dependant_scatter.*)
(* A dex is in tenths; sigma = dex * ln(10) is in units of 1e-7.           *)
(***************************************************************************)
LN10 == 2302585         \* ln(10) as add_log_normal_scatter writes it

LN10_joint == 2302850   \* as add_co_tracer_dependant_scatter writes it

is_None(x) == x.t = "None"

\* (variant) the generator not reseeded
np_random_seed_skipped(st, seed) == st

\* np.random.seed(seed): the state of the global generator after it
np_random_seed(st, seed) == seed % 16

\* the state of a generator after n draws
RECURSIVE rng_skip(_, _)
rng_skip(st, n) == IF n = 0 THEN st ELSE rng_skip(rng_next(st), n - 1)

\* -0.5*sigma**2, from the leading digits of sigma
half_square(sigma) == -(((sigma \div 10000) * (sigma \div 10000)) \div 2)

\* one lognormal(mu, sigma) draw at generator state st: a positive factor,
\* exp(0) = 1 when sigma is 0
lognormal(st, mu, sigma) ==
    IF sigma = 0 THEN 1 ELSE 2 + ((st + (sigma \div 100) + Abs(mu)) % 3)

\* sigma = dex * 2.302585, the standard deviation in log space
log_sigma(dex) == dex * LN10

\* sigmaco = codex * 2.30285, sigmatr = catdex * 2.30285
log_sigma_joint(dex) == dex * LN10_joint

\* the element of a set of one element: the({e : x \in {d}}) is e with x
\* standing for the value of d, computed once
the(S) == CHOOSE x \in S : TRUE

\* (variant) no guard on the scatter width
guard_dropped(dex) == FALSE

\* np.any(dex <= 0)
nonpositive(dex) == dex <= 0

\* add_log_normal_scatter(data, dex, seed) run with the global generator in
\* state st: the value returned, the generator after, the exception raised
add_log_normal_scatter(st, data, dex, seed) ==
    IF nonpositive(dex) THEN [v |-> data, rng |-> st, err |-> ""]
    ELSE LET sigma == log_sigma(dex)
             mu == half_square(sigma)
             st0 == np_random_seed(st, seed * 13579)
         IN IF data.t # "ndarray"            \* data.shape of a Python number
            THEN [v |-> None, rng |-> st0, err |-> "AttributeError"]
            ELSE IF sigma < 0                \* lognormal rejects sigma < 0
            THEN [v |-> None, rng |-> st0, err |-> "ValueError"]
            ELSE LET n == Len(data.v)
                     randscaling ==
                         [i \in 1..n |-> lognormal(rng_skip(st0, i - 1), mu, sigma)]
                     xscattered ==
                         [i \in 1..n |-> IF data.v[i] > 0
                                         THEN data.v[i] * randscaling[i]
                                         ELSE data.v[i]]
                 IN [v |-> ndarray(xscattered, data.o),
                     rng |-> rng_skip(st0, n), err |-> ""]

\* cov = [[sigmaco**2, sigmaco*sigmatr*rho],
\*        [sigmaco*sigmatr*rho, sigmatr**2]]
covariance(sigmaco, sigmatr, rho) ==
    LET sc == sigmaco \div 10000
        st == sigmatr \div 10000
    IN <<<<sc * sc, (sc * st * rho) \div 10>>,
         <<(sc * st * rho) \div 10, st * st>>>>

\* add_co_tracer_dependant_scatter(halos, rho, codex, catdex, seed): the
\* catalogue as the call leaves it (and returns it), the exception raised.
\* rho is in tenths; the covariance is kept to the leading digits of sigma.
add_co_tracer_dependant_scatter(self, rho, codex, catdex, seed) ==
    IF nonpositive(codex) \/ nonpositive(catdex)
    THEN [halos |-> self, err |-> ""]
    ELSE LET scalerng == default_rng(seed)
             sigmaco == log_sigma_joint(codex)
             muco == half_square(sigmaco)
             sigmatr == log_sigma_joint(catdex)
             mutr == half_square(sigmatr)
             cov == covariance(sigmaco, sigmatr, rho)
             marked == setattr(self, "cov", pylist(cov))
         IN IF self["Lco"].t # "ndarray"     \* len() of a Python number
            THEN [halos |-> marked, err |-> "TypeError"]
            ELSE LET n == Len(self["Lco"].v)
                     logscaleco ==
                         [i \in 1..n |->
                             lognormal(rng_skip(scalerng, 2 * i - 2), muco, sigmaco)]
                     logscaletr ==
                         [i \in 1..n |->
                             lognormal(rng_skip(scalerng, 2 * i - 1), mutr, sigmatr)]
                     Lco == [i \in 1..n |-> self["Lco"].v[i] * logscaleco[i]]
                     Lcat == [i \in 1..n |-> self["Lcat"].v[i] * logscaletr[i]]
                 IN [halos |->
                        setattr(setattr(marked,
                            "Lco", ndarray(Lco, self["Lco"].o)),
                            "Lcat", ndarray(Lcat, self["Lcat"].o)),
                     err |-> ""]

(***************************************************************************)
(* The SFR table: get_sfr_table, Mhalo_to_sfr_Behroozi.                    *)
(***************************************************************************)
\* the state a luminosity run reads and writes: the catalogue, the
\* parameters, the module global, numpy's global generator, and the count
\* of table constructions
world(h, p, tab, rng, n) ==
    [halos |-> h, params |-> p, tab |-> tab, rng |-> rng, loads |-> n]

returns(w, v) == [w |-> w, v |-> v, err |-> "", msg |-> << >>]

raises(w, err, msg) == [w |-> w, v |-> None, err |-> err, msg |-> msg]

\* an array with one element per halo
\* the indices of the halos of a catalogue
halo_indices(self) == 1..Len(self["M"].v)

per_halo(self, values) == ndarray(values, self["M"].o)

\* the interpolant get_sfr_table builds, with or without the extrapolation
\* to the masses the table leaves out
get_sfr_table(bad_extrapolation) ==
    [t |-> "RectBivariateSpline", bad |-> bad_extrapolation]

\* sfr_interp_tab.ev at one halo: the tabulated rate is 10**-1000 = 0 for
\* the masses the table leaves out, unless they were extrapolated
ev(tab, M, z) == IF M < 2 /\ ~tab.bad THEN 0 ELSE 4 * M + z

\* (variant) the table built by every call
table_rebuilt(tab, bad_extrapolation) ==
    [tab |-> get_sfr_table(bad_extrapolation), built |-> 1]

\* if sfr_interp_tab is None: sfr_interp_tab = get_sfr_table(...)
table_cached(tab, bad_extrapolation) ==
    IF is_None(tab)
    THEN [tab |-> get_sfr_table(bad_extrapolation), built |-> 1]
    ELSE [tab |-> tab, built |-> 0]

Mhalo_to_sfr_Behroozi(w, sigma_sfr, bad_extrapolation) ==
    LET t == table_cached(w.tab, bad_extrapolation)
        M == w.halos["M"].v
        z == w.halos["redshift"].v
        sfr == per_halo(w.halos, [i \in halo_indices(w.halos) |-> ev(t.tab, M[i], z[i])])
    IN the({ LET w1 == [w EXCEPT !.tab = t.tab, !.loads = @ + t.built,
                                 !.rng = sc.rng]
             IN IF sc.err = "" THEN returns(w1, sc.v)
                ELSE raises(w1, sc.err, << >>) :
             sc \in { IF sigma_sfr > 0
                      THEN add_log_normal_scatter(w.rng, sfr, sigma_sfr, 1)
                      ELSE [v |-> sfr, rng |-> w.rng, err |-> ""] } })

(***************************************************************************)
(* The CO models: Mhalo_to_Lco and the functions of its dictionary.  Every *)
(* call in the module passes scatter=False; the scatter=True branches are  *)
(* not modelled.  A coefficient tuple is pytuple of scaled integers.       *)
(***************************************************************************)
pystr(x) == [t |-> "str", s |-> x]

pybool(x) == [t |-> "bool", v |-> x]

pyfunction(x) == [t |-> "function", name |-> x]

\* the truth value of a Python object in `if x:` / `if not x:`
truthy(x) ==
    CASE x.t = "None" -> FALSE
      [] x.t = "bool" -> x.v
      [] x.t = "str" -> x.s # ""
      [] x.t \in {"tuple", "list"} -> Len(x.v) > 0
      [] OTHER -> TRUE

RECURSIVE pow10(_)
pow10(n) == IF n <= 0 THEN 1 ELSE 10 * pow10(n - 1)

\* halos.sfr as the model finds or computes it: if not hasattr(halos,'sfr'):
\* halos.sfr = Mhalo_to_sfr_Behroozi(halos, sigma_sfr)
sfr_if_missing(w, sigma_sfr) ==
    IF hasattr(w.halos, "sfr") THEN returns(w, w.halos["sfr"])
    ELSE the({ IF s.err # "" THEN s
               ELSE returns([s.w EXCEPT !.halos = setattr(@, "sfr", s.v)], s.v) :
               s \in {Mhalo_to_sfr_Behroozi(w, sigma_sfr, FALSE)} })

\* Lco of the Li 2016 relation for one halo: zero where the SFR is zero
Lco_of_sfr(sfr, delta_mf, alpha, beta, scale) ==
    LET lir == (sfr * 10) \div delta_mf
        Lcop == ((lir * 100) \div alpha) * (1 + (-beta) \div alpha)
    IN (49 * Lcop * scale) \div 100

Mhalo_to_Lco_Li(w, coeffs) ==
    IF ~is_None(coeffs) /\ Len(coeffs.v) # 6
    THEN raises(w, "ValueError", << >>)             \* tuple unpacking
    ELSE LET c == IF is_None(coeffs) THEN <<0, 137, -174, 3, 3, 1>>
                  ELSE coeffs.v
         IN the({ IF s.err # "" THEN s
                  ELSE returns(s.w, per_halo(s.w.halos,
                           [i \in halo_indices(s.w.halos) |->
                               Lco_of_sfr(s.v.v[i], pow10(c[1]), c[2], c[3],
                                          c[6])])) :
                  s \in {sfr_if_missing(w, c[4])} })

Mhalo_to_Lco_Li_sigmasc(w, coeffs) ==
    IF ~is_None(coeffs) /\ Len(coeffs.v) # 4
    THEN raises(w, "ValueError", << >>)
    ELSE LET c == IF is_None(coeffs) THEN <<0, 137, -174, 3>> ELSE coeffs.v
         IN the({ IF s.err # "" THEN s
                  ELSE returns(s.w, per_halo(s.w.halos,
                           [i \in halo_indices(s.w.halos) |->
                               Lco_of_sfr(s.v.v[i], pow10(c[1]), c[2], c[3],
                                          1)])) :
                  s \in {sfr_if_missing(w, 0)} })

Mhalo_to_Lco_Padmanabhan(w, coeffs) ==
    IF ~is_None(coeffs) /\ Len(coeffs.v) # 9
    THEN raises(w, "ValueError", << >>)
    ELSE LET c == IF is_None(coeffs)
                  THEN <<417, -117, 33, 4, 95, 48, 66, -33, 1>>
                  ELSE coeffs.v
             z == w.halos["redshift"].v
             hm == w.halos["M"].v
         IN returns(w, per_halo(w.halos, [i \in halo_indices(w.halos) |->
                (2 * (c[3] + (c[4] * z[i]) \div (z[i] + 1)) * hm[i] * c[9])
                    \div 10]))

\* C / ((Mh/M)**A + (Mh/M)**B), in solar luminosities
double_power_law(Mh, c) ==
    (49 * ((c[3] * Mh * 100) \div (Abs(c[1]) + Abs(c[2]) + c[4]))) \div 100

Mhalo_to_Lco_fiuducial(w, coeffs) ==
    IF ~is_None(coeffs) /\ Len(coeffs.v) # 5
    THEN raises(w, "ValueError", << >>)
    ELSE LET c == IF is_None(coeffs) THEN <<-285, -42, 1063, 1230, 4>>
                  ELSE coeffs.v
         IN returns(w, per_halo(w.halos, [i \in halo_indices(w.halos) |->
                double_power_law(w.halos["M"].v[i], c)]))

Mhalo_to_Lco_Yang(w, coeffs) ==
    IF ~is_None(coeffs) THEN returns(w, scalar(0))
    ELSE LET z == w.halos["redshift"].v
             Mh == w.halos["M"].v
         IN returns(w, per_halo(w.halos, [i \in halo_indices(w.halos) |->
                (20 * Mh[i]) \div (1 + z[i])]))

\* the functions of the halo catalogue an arbitrary model is given
lco_func(name, w) ==
    CASE name = "from_mass" ->
            returns(w, per_halo(w.halos, [i \in halo_indices(w.halos) |-> 5 * w.halos["M"].v[i]]))
      [] name = "from_sfr" ->
            IF hasattr(w.halos, "sfr")
            THEN returns(w, per_halo(w.halos, [i \in halo_indices(w.halos) |-> 2 * w.halos["sfr"].v[i]]))
            ELSE raises(w, "AttributeError", << >>)

\* coeffs is a callable, or a tuple of len elements read as lco_func,
\* sfr_calc, sigma_sfr, bad_extrapolation
Mhalo_to_Lco_arbitrary(w, coeffs) ==
    IF is_None(coeffs) THEN raises(w, "TypeError", << >>)      \* None[:2]
    ELSE LET callable == coeffs.t = "function"
             func == IF callable THEN coeffs.name ELSE coeffs.lco_func
             sfr_calc == IF callable THEN TRUE ELSE coeffs.sfr_calc
             sigma_sfr == IF ~callable /\ coeffs.len > 2 THEN coeffs.sigma_sfr
                          ELSE 3
             bad_extrapolation ==
                 IF ~callable /\ coeffs.len > 3 THEN coeffs.bad_extrapolation
                 ELSE FALSE
         IN IF sfr_calc
            THEN the({ IF s.err # "" THEN s
                       ELSE the({ lco_func(func, w1) :
                                  w1 \in {[s.w EXCEPT
                                              !.halos = setattr(@, "sfr", s.v)]} }) :
                       s \in {Mhalo_to_sfr_Behroozi(w, sigma_sfr,
                                                    bad_extrapolation)} })
            ELSE lco_func(func, w)

\* the keys of the dictionary of Mhalo_to_Lco
LcoModels == {"Li", "Li_sc", "Padmanabhan", "fiuducial", "Yang", "arbitrary"}

Mhalo_to_Lco(w) ==
    LET model == w.params["model"]
        coeffs == w.params["co_model_coeffs"]
    IN CASE model = "Li" -> Mhalo_to_Lco_Li(w, coeffs)
         [] model = "Li_sc" -> Mhalo_to_Lco_Li_sigmasc(w, coeffs)
         [] model = "Padmanabhan" -> Mhalo_to_Lco_Padmanabhan(w, coeffs)
         [] model = "fiuducial" -> Mhalo_to_Lco_fiuducial(w, coeffs)
         [] model = "Yang" -> Mhalo_to_Lco_Yang(w, coeffs)
         [] model = "arbitrary" -> Mhalo_to_Lco_arbitrary(w, coeffs)
         [] OTHER ->
              raises(w, "SystemExit",
                     <<"Your model, ", model, ", does not seem to exist">>)

(***************************************************************************)
(* The catalogue models: Mhalo_to_Lcatalog and the functions of its        *)
(* dictionary.  A model returns the pair (luminosities, params) or, for    *)
(* test2, the luminosities alone.                                          *)
(***************************************************************************)
pair(Lcat) == [t |-> "pair", Lcat |-> Lcat]

\* try: coeffs = params.catalog_coeffs / except AttributeError: coeffs = None
catalog_coeffs_or_None(p) ==
    IF hasattr(p, "catalog_coeffs") THEN p["catalog_coeffs"] ELSE None

Mhalo_to_LLya_Chung(w) ==
    the({ IF s.err # "" THEN s
          ELSE LET z == s.w.halos["redshift"].v
                   Llya == per_halo(s.w.halos,
                               [i \in halo_indices(s.w.halos) |->
                                   (16 * s.v.v[i]) \div (1 + z[i])])
               IN returns([s.w EXCEPT !.params = setattr(@, "catdex", 3)],
                          pair(Llya)) :
          s \in {sfr_if_missing(w, 3)} })

\* halomassfunction interpolated at the mass of halo i: the number of
\* halos of the catalogue at least as massive
intMforM(M, i) == Cardinality({j \in 1..Len(M) : M[j] >= M[i]})

\* (variant) the luminosity grid not flipped against the cumulative function
LforintM_not_flipped(n, coeffs) == 10 * (coeffs[4] + n)

\* np.interp(intMforM, np.flip(intL), np.flip(logLprimecents)): the
\* luminosity above which the luminosity function holds n objects, counted
\* down from the brightest, coeffs[-1]
LforintM(n, coeffs) == 10 * (coeffs[5] - n)

\* abundancematch(schechter, coeffs, halos, params): the luminosity whose
\* cumulative number density equals that of the halos at least as massive;
\* it stores the result in halos.Lcat before it returns it
abundancematch(w, coeffs) ==
    IF Len(coeffs) < 2 THEN raises(w, "IndexError", << >>)
    ELSE IF Len(coeffs) # 5 THEN raises(w, "ValueError", << >>)
    ELSE LET M == w.halos["M"].v
             Lcat == per_halo(w.halos, [i \in halo_indices(w.halos) |->
                         LforintM(intMforM(M, i), coeffs)])
         IN returns([w EXCEPT !.halos = setattr(@, "Lcat", Lcat)], Lcat)

Mhalo_to_Lcatalog_schechter(w) ==
    IF ~hasattr(w.params, "catalog_coeffs")
    THEN raises(w, "AttributeError", << >>)
    ELSE LET p == IF truthy(w.params["catalog_coeffs"]) THEN w.params
                  ELSE setattr(w.params, "catalog_coeffs",
                               pylist(<<849, 39, -18, 39, 45>>))
             w1 == [w EXCEPT !.params = p]
         IN the({ IF a.err # "" THEN a ELSE returns(a.w, pair(a.v)) :
                  a \in {abundancematch(w1, p["catalog_coeffs"].v)} })

Mhalo_to_Lcatalog_schechter_amp(w) ==
    IF ~hasattr(w.params, "catalog_coeffs")
    THEN raises(w, "AttributeError", << >>)
    ELSE LET p == IF truthy(w.params["catalog_coeffs"]) THEN w.params
                  ELSE setattr(w.params, "catalog_coeffs",
                               pylist(<<1, 849, 39, -18, 39, 45>>))
             w1 == [w EXCEPT !.params = p]
             c == p["catalog_coeffs"].v
         IN the({ IF a.err # "" THEN a
                  ELSE LET Llya == ndarray([i \in 1..Len(a.v.v) |->
                                               a.v.v[i] * c[1]], a.v.o)
                       IN returns([a.w EXCEPT
                                      !.halos = setattr(@, "Lcat", Llya)],
                                  pair(Llya)) :
                  a \in {abundancematch(w1, Tail(c))} })

\* the body test1 and test2 share: the coefficients recorded on the
\* catalogue, the luminosities, params.catdex = sigma
test_model(w, default) ==
    LET given == catalog_coeffs_or_None(w.params)
    IN IF ~is_None(given) /\ Len(given.v) # 5
       THEN raises(w, "ValueError", << >>)
       ELSE LET coeffs == IF is_None(given) THEN pytuple(default) ELSE given
                h == setattr(w.halos, "catalog_coeffs", coeffs)
                Lcatalog == per_halo(h, [i \in halo_indices(h) |->
                                double_power_law(h["M"].v[i], coeffs.v)])
            IN returns([w EXCEPT !.halos = h,
                                 !.params = setattr(@, "catdex", coeffs.v[5])],
                       Lcatalog)

Mhalo_to_Lcatalog_test1(w) ==
    the({ IF r.err # "" THEN r ELSE returns(r.w, pair(r.v)) :
          r \in {test_model(w, <<-20, -5, 11, 13, 5>>)} })

Mhalo_to_Lcatalog_test2(w) == test_model(w, <<5, 20, 11, 12, 5>>)

\* the keys of the dictionary of Mhalo_to_Lcatalog
LcatModels == {"lya_chung", "schechter", "schechter_amp", "default", "test2"}

Mhalo_to_Lcatalog(w) ==
    LET model == w.params["catalog_model"].s
    IN CASE model = "lya_chung" -> Mhalo_to_LLya_Chung(w)
         [] model = "schechter" -> Mhalo_to_Lcatalog_schechter(w)
         [] model = "schechter_amp" -> Mhalo_to_Lcatalog_schechter_amp(w)
         [] model = "default" -> Mhalo_to_Lcatalog_test1(w)
         [] model = "test2" -> Mhalo_to_Lcatalog_test2(w)
         [] OTHER ->
              raises(w, "SystemExit",
                     <<"Your catalog model, ", model, ", does not seem to exist">>)

(***************************************************************************)
(* Mhalo_to_Ls.                                                            *)
(***************************************************************************)
\* the statements after the catalogue luminosities are assigned: the
\* scatterless copies and the joint scatter
joint_scatter(w) ==
    LET p == w.params
        h == IF truthy(p["save_scatterless_lums"])
             THEN setattr(setattr(w.halos,
                      "scatterless_Lco", w.halos["Lco"]),
                      "scatterless_Lcat", w.halos["Lcat"])
             ELSE w.halos
    IN the({ LET w1 == [w EXCEPT !.halos = r.halos]
             IN IF r.err = "" THEN returns(w1, None)
                ELSE raises(w1, r.err, << >>) :
             r \in {add_co_tracer_dependant_scatter(h, p["rho"], p["codex"],
                         p["catdex"], p["lum_uncert_seed"])} })

\* halos.Lcat, params = Mhalo_to_Lcatalog(halos, params), and what follows
catalog_branch(w) ==
    the({ IF cat.err # "" THEN cat
          ELSE IF cat.v.t = "pair"
          THEN the({ joint_scatter(w1) :
                     w1 \in {[cat.w EXCEPT
                                 !.halos = setattr(@, "Lcat", cat.v.Lcat)]} })
          ELSE IF Len(cat.v.v) # 2
          THEN raises(cat.w, "ValueError", << >>)    \* unpacking an array
          ELSE \* halos.Lcat is the first element; the local name params is
               \* the second, a number, and params.save_scatterless_lums fails
               raises([cat.w EXCEPT
                          !.halos = setattr(@, "Lcat", scalar(cat.v.v[1]))],
                      "AttributeError", << >>) :
          cat \in {Mhalo_to_Lcatalog(w)} })

\* the else branch: the scatterless copy and the CO-only scatter
co_only_branch(w) ==
    LET p == w.params
        h == IF truthy(p["save_scatterless_lums"])
             THEN setattr(w.halos, "scatterless_Lco", w.halos["Lco"])
             ELSE w.halos
    IN the({ LET w1 == [w EXCEPT !.halos = h, !.rng = sc.rng]
             IN IF sc.err # "" THEN raises(w1, sc.err, << >>)
                ELSE returns([w1 EXCEPT !.halos = setattr(@, "Lco", sc.v)],
                             None) :
             sc \in {add_log_normal_scatter(w.rng, h["Lco"], p["codex"],
                                            p["lum_uncert_seed"])} })

\* the defaults Mhalo_to_Ls gives params.lum_uncert_seed and
\* params.save_scatterless_lums when the parameter file sets none
lum_defaults(p) ==
    LET p1 == IF hasattr(p, "lum_uncert_seed") THEN p
              ELSE setattr(p, "lum_uncert_seed", 12345)
    IN IF hasattr(p1, "save_scatterless_lums") THEN p1
       ELSE setattr(p1, "save_scatterless_lums", None)

\* the defaults, then halos.Lco = Mhalo_to_Lco(halos, params, scatter=False)
assign_Lco(w) ==
    the({ IF co.err # "" THEN co
          ELSE returns([co.w EXCEPT !.halos = setattr(@, "Lco", co.v)], co.v) :
          co \in {Mhalo_to_Lco([w EXCEPT !.params = lum_defaults(@)])} })

Mhalo_to_Ls(w) ==
    the({ IF s.err # "" THEN s
          ELSE IF truthy(s.w.params["catalog_model"]) THEN catalog_branch(s.w)
          ELSE co_only_branch(s.w) :
          s \in {assign_Lco(w)} })

(***************************************************************************)
(* Specification of luminosity runs: Mhalo_to_Ls on a catalogue as the     *)
(* constructor leaves it (loaded and culled), with the parameters of one   *)
(* parameter file.                                                         *)
(***************************************************************************)
\* the process-wide state of the current state of the model
now == world(halos, params, sfr_interp_tab, np_random, table_loads)

\* marks an attribute the parameter file does not set
Missing == [t |-> "missing"]

\* coeffs of an arbitrary model given as a tuple of len elements
arbitrary_tuple(len, func, sfr_calc, sigma_sfr, bad_extrapolation) ==
    [t |-> "tuple", len |-> len, lco_func |-> func, sfr_calc |-> sfr_calc,
     sigma_sfr |-> sigma_sfr, bad_extrapolation |-> bad_extrapolation]

ArbitraryCoeffs ==
    { pyfunction("from_sfr"),
      arbitrary_tuple(2, "from_mass", FALSE, 3, FALSE),
      arbitrary_tuple(3, "from_sfr", TRUE, 0, FALSE),
      arbitrary_tuple(4, "from_sfr", TRUE, 3, TRUE) }

\* params.model: the keys of the dictionary, and the key 'fiducial'
CoModelKeys == LcoModels \cup {"fiducial"}

\* params.co_model_coeffs for a model: None, or coefficients of its shape
CoCoeffs(model) ==
    CASE model = "Li" -> {None, pytuple(<<0, 137, -174, 0, 3, 2>>)}
      [] model = "Li_sc" -> {None, pytuple(<<0, 137, -174, 3>>)}
      [] model = "Yang" -> {None, pytuple(<<1>>)}
      [] model = "arbitrary" -> ArbitraryCoeffs
      [] OTHER -> {None}

\* params.catalog_model: None, the keys of the dictionary, and the key 'lya'
CatModelKeys == {None} \cup {pystr(k) : k \in LcatModels \cup {"lya"}}

CatCoeffs == {Missing, None, pytuple(<<-30, -10, 12, 13, 2>>)}

LsConfigs ==
    {c \in [model : CoModelKeys,
            co_model_coeffs : UNION {CoCoeffs(m) : m \in CoModelKeys},
            catalog_model : CatModelKeys,
            catalog_coeffs : CatCoeffs,
            codex : {0, 3}, catdex : {0, 5}, seeded : BOOLEAN] :
        /\ c.co_model_coeffs \in CoCoeffs(c.model)
        /\ is_None(c.catalog_model) =>
               is_None(c.catalog_coeffs) /\ c.catdex = 5}

\* the SimParameters object of a configuration; cull has set z_i and z_f
SimParameters(c) ==
    LET base == [model |-> c.model, co_model_coeffs |-> c.co_model_coeffs,
                 catalog_model |-> c.catalog_model,
                 codex |-> c.codex, catdex |-> c.catdex, rho |-> 5,
                 z_i |-> 1, z_f |-> 3, fov_x |-> 4, fov_y |-> 4]
        p1 == IF c.catalog_coeffs.t = "missing" THEN base
              ELSE setattr(base, "catalog_coeffs", c.catalog_coeffs)
    IN IF c.seeded
       THEN setattr(setattr(p1, "lum_uncert_seed", 3),
                    "save_scatterless_lums", pybool(TRUE))
       ELSE p1

\* the files whose halos are in the order cull leaves them in
CulledFiles ==
    {f \in CatalogFiles : \A i \in 1..(Len(f) - 1) : f[i].M >= f[i + 1].M}

run_Mhalo_to_Ls ==
    \E r \in {Mhalo_to_Ls(now)} :
       /\ halos' = r.w.halos
       /\ params' = r.w.params
       /\ sfr_interp_tab' = r.w.tab
       /\ np_random' = r.w.rng
       /\ table_loads' = r.w.loads
       /\ ret' = None
       /\ last' = [op |-> "Mhalo_to_Ls", err |-> r.err, msg |-> r.msg,
                   args |-> << >>]
       /\ UNCHANGED earlier

InitLs ==
    /\ \E file \in CulledFiles : halos = load(file)
    /\ \E c \in LsConfigs : params = SimParameters(c)
    /\ ret = None
    /\ last = [op |-> "load", err |-> "", msg |-> << >>, args |-> << >>]
    /\ sfr_interp_tab = None
    /\ np_random = 0
    /\ table_loads = 0
    /\ earlier = None

NextLs == run_Mhalo_to_Ls

SpecLs == InitLs /\ [][NextLs]_vars

(***************************************************************************)
(* Specification of the scatter functions, called directly, with draws     *)
(* from numpy's global generator (get_velocities) in between.              *)
(***************************************************************************)
MaxLum == 30            \* joint scatter is applied to luminosities up to this

ScatterData == { ndarray(<<30, 0, -20>>, <<1, 2, 3>>) }

ScatterDex == {-3, 0, 3}

ScatterSeeds == {1, 2}

ScatterFiles == {f \in CatalogFiles : Len(f) = 1}

call_add_log_normal_scatter(data, dex, seed) ==
    LET r == add_log_normal_scatter(np_random, data, dex, seed)
        args == [data |-> data, dex |-> dex, seed |-> seed]
    IN /\ ret' = r.v
       /\ np_random' = r.rng
       /\ last' = [op |-> "add_log_normal_scatter", err |-> r.err,
                   msg |-> << >>, args |-> args]
       /\ \/ earlier' = earlier
          \/ earlier' = [t |-> "call", args |-> args, out |-> r.v,
                         between |-> FALSE]
       /\ UNCHANGED <<halos, params, sfr_interp_tab, table_loads>>

call_add_co_tracer_dependant_scatter(rho, codex, catdex, seed) ==
    /\ MaxSeq(halos["Lco"].v) <= MaxLum
    /\ LET r == add_co_tracer_dependant_scatter(halos, rho, codex, catdex, seed)
       IN /\ halos' = r.halos
          /\ ret' = [t |-> "HaloCatalog", a |-> r.halos]
          /\ last' = [op |-> "add_co_tracer_dependant_scatter", err |-> r.err,
                      msg |-> << >>,
                      args |-> [rho |-> rho, codex |-> codex,
                                catdex |-> catdex, seed |-> seed]]
    /\ UNCHANGED <<params, lumvars>>

\* the virial velocity of a halo
vvir(M, z) == 35 * M + z

\* get_velocities for velocity_attr 'vvir' and 'vvirincli': one uniform draw
\* per halo from the global generator, never seeded here
get_velocities(velocity_attr) ==
    LET M == halos["M"].v
        z == halos["redshift"].v
        sin_i == per_halo(halos, [i \in halo_indices(halos) |->
                     4 - rng_uniform(rng_skip(np_random, i - 1), 4)])
        v == per_halo(halos, [i \in halo_indices(halos) |-> vvir(M[i], z[i])])
        vbroaden == IF velocity_attr = "vvirincli"
                    THEN per_halo(halos, [i \in halo_indices(halos) |->
                             (v.v[i] * sin_i.v[i] * 1000) \div 3464])
                    ELSE v
        h1 == setattr(halos, "sin_i", sin_i)
        h2 == IF velocity_attr = "vvirincli" THEN setattr(h1, "vvir", v) ELSE h1
    IN /\ halos' = setattr(h2, "vbroaden", vbroaden)
       /\ params' = setattr(params, "filterfunc", "gaussian_filter1d")
       /\ np_random' = rng_skip(np_random, nhalo_of(halos))
       /\ ret' = vbroaden
       /\ last' = [op |-> "get_velocities", err |-> "", msg |-> << >>,
                   args |-> << >>]
       /\ earlier' = IF is_None(earlier) THEN earlier
                     ELSE [earlier EXCEPT !.between = TRUE]
       /\ UNCHANGED <<sfr_interp_tab, table_loads>>

InitScatter ==
    /\ \E file \in ScatterFiles : halos = load_luminosities(load(file), file)
    /\ params = << >>
    /\ ret = None
    /\ last = [op |-> "load", err |-> "", msg |-> << >>, args |-> << >>]
    /\ sfr_interp_tab = None
    /\ np_random \in RngStates
    /\ table_loads = 0
    /\ earlier = None

NextScatter ==
    \/ \E data \in ScatterData, dex \in ScatterDex, seed \in ScatterSeeds :
          call_add_log_normal_scatter(data, dex, seed)
    \/ \E codex \in {0, 3}, catdex \in {0, 5}, seed \in ScatterSeeds :
          call_add_co_tracer_dependant_scatter(5, codex, catdex, seed)
    \/ \E velocity_attr \in {"vvir", "vvirincli"} : get_velocities(velocity_attr)

SpecScatter == InitScatter /\ [][NextScatter]_vars

(***************************************************************************)
(* Specification of the SFR table: Mhalo_to_sfr_Behroozi called directly   *)
(* and through the CO models that call it.                                 *)
(***************************************************************************)
call_Mhalo_to_sfr_Behroozi(sigma_sfr, bad_extrapolation) ==
    LET r == Mhalo_to_sfr_Behroozi(now, sigma_sfr, bad_extrapolation)
    IN /\ ret' = r.v
       /\ sfr_interp_tab' = r.w.tab
       /\ np_random' = r.w.rng
       /\ table_loads' = r.w.loads
       /\ last' = [op |-> "Mhalo_to_sfr_Behroozi", err |-> r.err,
                   msg |-> << >>,
                   args |-> [sigma_sfr |-> sigma_sfr,
                             bad_extrapolation |-> bad_extrapolation]]
       /\ UNCHANGED <<halos, params, earlier>>

\* Mhalo_to_Lco(halos, params, scatter=False) with params naming a model
call_Mhalo_to_Lco(model, coeffs) ==
    LET p == [model |-> model, co_model_coeffs |-> coeffs]
        r == Mhalo_to_Lco([now EXCEPT !.params = p])
    IN /\ ret' = r.v
       /\ halos' = r.w.halos
       /\ params' = r.w.params
       /\ sfr_interp_tab' = r.w.tab
       /\ np_random' = r.w.rng
       /\ table_loads' = r.w.loads
       /\ last' = [op |-> "Mhalo_to_Lco", err |-> r.err, msg |-> r.msg,
                   args |-> p]
       /\ UNCHANGED earlier

SfrModels == {"Li", "Li_sc", "arbitrary"}

InitSfr ==
    /\ \E file \in CatalogFiles : halos = load(file)
    /\ params = << >>
    /\ ret = None
    /\ last = [op |-> "load", err |-> "", msg |-> << >>, args |-> << >>]
    /\ sfr_interp_tab = None
    /\ np_random = 0
    /\ table_loads = 0
    /\ earlier = None

NextSfr ==
    \/ \E sigma_sfr \in {0, 3}, bad_extrapolation \in BOOLEAN :
          call_Mhalo_to_sfr_Behroozi(sigma_sfr, bad_extrapolation)
    \/ \E model \in SfrModels : \E coeffs \in CoCoeffs(model) :
          call_Mhalo_to_Lco(model, coeffs)

SpecSfr == InitSfr /\ [][NextSfr]_vars

(***************************************************************************)
(* Properties of the luminosity functions.                                 *)
(***************************************************************************)
\* the luminosity and SFR fields of the catalogue are as they were
lum_fields_kept(before, after) ==
    \A a \in {"Lco", "Lcat", "sfr"} :
        /\ hasattr(after, a) <=> hasattr(before, a)
        /\ hasattr(before, a) => after[a] = before[a]

\* C7: a run of Mhalo_to_Ls with an unknown params.model, or with an unknown
\* params.catalog_model, ends in a fatal error whose message names the key,
\* and leaves no Lco, Lcat or sfr field of the catalogue added or changed.
C7_UnknownModelKeyFatalNoMutation ==
    [][last'.op = "Mhalo_to_Ls" =>
          LET model == params["model"]
              cat == params["catalog_model"]
          IN /\ model \notin LcoModels =>
                   /\ last'.err = "SystemExit"
                   /\ model \in Range(last'.msg)
                   /\ lum_fields_kept(halos, halos')
             /\ (model \in LcoModels /\ truthy(cat) /\ cat.s \notin LcatModels) =>
                   /\ last'.err = "SystemExit"
                   /\ cat.s \in Range(last'.msg)
                   /\ lum_fields_kept(halos, halos')]_vars

\* C8: add_log_normal_scatter with dex <= 0 returns data unchanged, and
\* add_co_tracer_dependant_scatter with codex <= 0 or catdex <= 0 returns
\* with halos.Lco and halos.Lcat unchanged; neither raises.
C8_NonPositiveDexIsNoOp ==
    [][/\ (last'.op = "add_log_normal_scatter" /\ last'.args.dex <= 0) =>
              last'.err = "" /\ ret' = last'.args.data
       /\ (/\ last'.op = "add_co_tracer_dependant_scatter"
           /\ (last'.args.codex <= 0 \/ last'.args.catdex <= 0)) =>
              /\ last'.err = ""
              /\ halos'["Lco"] = halos["Lco"]
              /\ halos'["Lcat"] = halos["Lcat"]]_vars

\* a joint scatter with catdex = 0 and a positive codex, on a catalogue an
\* earlier joint scatter had changed, and returning it as it was
C8_Witness ==
    /\ last.op = "add_co_tracer_dependant_scatter"
    /\ last.args.codex = 3
    /\ last.args.catdex = 0
    /\ last.err = ""
    /\ hasattr(halos, "cov")
    /\ ret.a = halos

\* C9: two add_log_normal_scatter calls with the same (data, dex, seed)
\* return the same output whatever was drawn from the generator in between,
\* and the elements of data that are <= 0 are returned unchanged.
C9_ScatterDeterministic ==
    (last.op = "add_log_normal_scatter" /\ last.err = "") =>
        /\ (~is_None(earlier) /\ earlier.args = last.args) => ret = earlier.out
        /\ \A i \in 1..Len(last.args.data.v) :
              last.args.data.v[i] <= 0 => ret.v[i] = last.args.data.v[i]

\* a second call with the arguments of a remembered one, get_velocities
\* having drawn from the generator in between, that scattered the positive
\* element and left the others
C9_Witness ==
    /\ last.op = "add_log_normal_scatter"
    /\ ~is_None(earlier)
    /\ earlier.between
    /\ earlier.args = last.args
    /\ last.args.dex = 3
    /\ last.args.data.v = <<30, 0, -20>>
    /\ ret.v[1] > 30
    /\ ret.v[2] = 0
    /\ ret.v[3] = -20

\* C10: get_sfr_table runs at most once; once the interpolant is built it
\* is never replaced, and every later Mhalo_to_sfr_Behroozi call evaluates
\* it, whatever bad_extrapolation the call asks for.
C10_SfrTableBuiltOnce ==
    [][/\ table_loads' <= 1
       /\ ~is_None(sfr_interp_tab) =>
              /\ sfr_interp_tab' = sfr_interp_tab
              /\ table_loads' = table_loads
              /\ (last'.op = "Mhalo_to_sfr_Behroozi" /\ last'.args.sigma_sfr = 0) =>
                     \A i \in 1..nhalo_of(halos) :
                         ret'.v[i] = ev(sfr_interp_tab, halos["M"].v[i],
                                        halos["redshift"].v[i])]_vars

\* a call asking for the extrapolation, served by the interpolant an
\* earlier call built without it: the halo of mass 1 has no star formation
C10_Witness ==
    /\ last.op = "Mhalo_to_sfr_Behroozi"
    /\ last.args.bad_extrapolation
    /\ last.args.sigma_sfr = 0
    /\ ~is_None(sfr_interp_tab)
    /\ ~sfr_interp_tab.bad
    /\ table_loads = 1
    /\ halos["M"].v = <<1>>
    /\ ret.v = <<0>>

\* what Mhalo_to_Lcatalog returns to a run of Mhalo_to_Ls that starts in the
\* current state (the raise of the CO model, if it raised before the call)
Lcatalog_of_run ==
    the({ IF s.err # "" THEN s ELSE Mhalo_to_Lcatalog(s.w) :
          s \in {assign_Lco(now)} })

\* C11: for every key of the dictionary of Mhalo_to_Lcatalog, the model
\* function returns the pair (Lcat, params), and the assignment
\* halos.Lcat, params = Mhalo_to_Lcatalog(halos, params) leaves an array of
\* nhalo luminosities in halos.Lcat.
C11_CatalogModelReturnsPair ==
    [][(/\ last'.op = "Mhalo_to_Ls"
        /\ truthy(params["catalog_model"])
        /\ params["catalog_model"].s \in LcatModels) =>
           \A cat \in {Lcatalog_of_run} :
               cat.err = "" =>
                  /\ cat.v.t = "pair"
                  /\ hasattr(halos', "Lcat")
                  /\ halos'["Lcat"].t = "ndarray"
                  /\ Len(halos'["Lcat"].v) = nhalo_of(halos)]_vars

\* C12: each of the model names Li, Li_sc, Padmanabhan, fiducial, Yang and
\* arbitrary is dispatched to its model function: a run with one of them
\* does not end in the unknown-model fatal error.
C12_ContractModelsDispatched ==
    [][(/\ last'.op = "Mhalo_to_Ls"
        /\ params["model"] \in {"Li", "Li_sc", "Padmanabhan", "fiducial",
                                "Yang", "arbitrary"}) =>
           last'.msg # <<"Your model, ", params["model"],
                         ", does not seem to exist">>]_vars

\* C13: a run of Mhalo_to_Ls leaves the params object as it was: every
\* attribute it had keeps its value and no attribute is added.
C13_ParamsUnchangedByRun ==
    [][last'.op = "Mhalo_to_Ls" => params' = params]_vars

\* C19: when a catalogue model is configured and the run completes, the
\* joint scatter is the one of the rho, codex and catdex the caller set in
\* params before the call: halos.cov is the covariance of those widths, and
\* is left as it was when one of them is not positive.
C19_JointScatterUsesConfiguredCatdex ==
    [][(/\ last'.op = "Mhalo_to_Ls"
        /\ last'.err = ""
        /\ truthy(params["catalog_model"])) =>
           IF nonpositive(params["codex"]) \/ nonpositive(params["catdex"])
           THEN /\ hasattr(halos', "cov") <=> hasattr(halos, "cov")
                /\ hasattr(halos, "cov") => halos'["cov"] = halos["cov"]
           ELSE /\ hasattr(halos', "cov")
                /\ halos'["cov"] =
                       pylist(covariance(params["codex"] * LN10_joint,
                                         params["catdex"] * LN10_joint,
                                         params["rho"]))]_vars

C16_MasscutIsAttrcutOnM ==
    [][/\ last'.op = "masscut_subset" =>
             /\ last'.err = ""
             /\ IF last'.in_place
                THEN /\ is_None(ret')
                     /\ halos' = attrcut_in_place(halos, "M",
                                     last'.args.minval, last'.args.maxval)
                ELSE /\ halos' = halos
                     /\ IsCatalog(ret')
                     /\ ret'.a = attrcut_copy(halos, "M",
                                     last'.args.minval, last'.args.maxval)
       /\ last'.op = "vmaxcut_subset" => last'.err = ""]_vars

\* the CO model of a call computes its luminosities from halos.sfr
needs_sfr(p) ==
    \/ p.model \in {"Li", "Li_sc"}
    \/ /\ p.model = "arbitrary"
       /\ ~is_None(p.co_model_coeffs)
       /\ (p.co_model_coeffs.t = "function" \/ p.co_model_coeffs.sfr_calc)

\* C17: halos.sfr is written once: a model that needs the SFR stores it
\* when the catalogue has none, and no model call replaces the halos.sfr an
\* earlier call has stored.
C17_SfrWriteOnce ==
    [][last'.op = "Mhalo_to_Lco" =>
          /\ hasattr(halos, "sfr") =>
                hasattr(halos', "sfr") /\ halos'["sfr"] = halos["sfr"]
          /\ (last'.err = "" /\ needs_sfr(last'.args)) =>
                hasattr(halos', "sfr")]_vars

\* the coefficients of a CO model with the width of its SFR scatter set to
\* zero (the models without an SFR scatter keep theirs)
sfr_scatter_off(model, coeffs) ==
    CASE model = "Li" ->
            pytuple([(IF is_None(coeffs) THEN <<0, 137, -174, 3, 3, 1>>
                      ELSE coeffs.v) EXCEPT ![4] = 0])
      [] model = "arbitrary" /\ ~is_None(coeffs) ->
            IF coeffs.t = "function"
            THEN arbitrary_tuple(3, coeffs.name, TRUE, 0, FALSE)
            ELSE [coeffs EXCEPT !.len = IF @ < 3 THEN 3 ELSE @,
                                !.sigma_sfr = 0]
      [] OTHER -> coeffs

\* C18: the Lco that Mhalo_to_Ls computes before its scatter step
\* (Mhalo_to_Lco with scatter=False) carries no random factor: the model
\* draws nothing from the generator, and the Lco is the one the model
\* gives with no scatter on the SFR.
C18_LcoUnscatteredBeforeScatterStep ==
    [][last'.op = "Mhalo_to_Ls" =>
          \A s \in {assign_Lco(now)} :
              s.err = "" =>
                 /\ s.w.rng = np_random
                 /\ \A mean \in {assign_Lco([now EXCEPT !.params =
                                     setattr(@, "co_model_coeffs",
                                         sfr_scatter_off(params["model"],
                                             params["co_model_coeffs"]))])} :
                        s.v = mean.v]_vars


\* the two constructions the model holds, the remembered one and the latest,
\* read one catalogue file with parameters that differ in min_mass only,
\* the remembered one having the lower min_mass
looser_then_stricter ==
    /\ last.op = "HaloCatalog"
    /\ earlier.t = "construction"
    /\ earlier.inputfile = last.args.inputfile
    /\ [earlier.params EXCEPT !.min_mass = 0] =
          [last.args.params EXCEPT !.min_mass = 0]
    /\ earlier.params.min_mass < last.args.params.min_mass

\* C20: for one input catalogue and two culls that differ only in min_mass,
\* the result of the stricter cull is a prefix of the result of the looser
\* cull: position i holds the same halo (the same row of the file) in both.
C20_StricterCullIsPrefix ==
    looser_then_stricter =>
        /\ Len(rows_of(halos)) <= Len(rows_of(earlier.out))
        /\ \A i \in 1..Len(rows_of(halos)) :
              rows_of(halos)[i] = rows_of(earlier.out)[i]

\* a catalogue with no halos.sfr stored on it
without_sfr(self) == [a \in DOMAIN self \ {"sfr"} |-> self[a]]

\* C21: the lya_chung catalogue model derives Lcat from an SFR computed
\* with sigma_sfr = 0.3, whatever CO model and CO coefficients ran before it
\* in the same run of Mhalo_to_Ls and whatever scatter widths are
\* configured: the Lcat it returns is the one it returns when it computes
\* the SFR itself.
C21_LyaChungSfrSigmaFixed ==
    [][(/\ last'.op = "Mhalo_to_Ls"
        /\ ~hasattr(halos, "sfr")
        /\ params["catalog_model"] = pystr("lya_chung")) =>
          \A s \in {assign_Lco(now)} :
              s.err = "" =>
                 \A got \in {Mhalo_to_LLya_Chung(s.w)},
                    own \in {Mhalo_to_LLya_Chung(
                                 [s.w EXCEPT !.halos = without_sfr(@)])} :
                     /\ got.err = "" /\ own.err = ""
                     /\ got.v = own.v]_vars

\* C22: the correlated scatter engine converts a dex width to a log-space
\* sigma with the factor of the independent engine (sigma = dex * ln(10),
\* 2.302585) and uses the same offset mu = -sigma^2/2, so for equal dex both
\* engines use the same sigma and mu; the matrix it stores on halos.cov is
\* [[s_co^2, rho*s_co*s_cat], [rho*s_co*s_cat, s_cat^2]] of those sigmas.
C22_JointEngineSigmaAsIndependent ==
    (/\ last.op = "add_co_tracer_dependant_scatter"
     /\ last.err = ""
     /\ last.args.codex > 0 /\ last.args.catdex > 0) =>
        /\ \A dex \in {last.args.codex, last.args.catdex} :
              /\ log_sigma_joint(dex) = log_sigma(dex)
              /\ half_square(log_sigma_joint(dex)) = half_square(log_sigma(dex))
        /\ hasattr(halos, "cov")
        /\ halos["cov"] = pylist(covariance(log_sigma(last.args.codex),
                                            log_sigma(last.args.catdex),
                                            last.args.rho))

====
